---- MODULE Spec2Model ----
(***************************************************************************)
(* Interview session protocol of ai-voice-interviewer-FE.                  *)
(*                                                                         *)
(* The repository holds several implementations of the session machine.    *)
(* Each one is modelled as one record-valued variable and has its own      *)
(* specification:                                                          *)
(*   sect : the InterviewSection component   (SpecSection)                 *)
(*   hook : the useInterviewSocket hook      (SpecSocket)                  *)
(* A handler of the code is an operator from the record before the call    *)
(* to the record after it, so that a handler that calls another handler is *)
(* the composition of the two operators.                                   *)
(*                                                                         *)
(* A function of a React component closes over the state values of the     *)
(* render that created it.  A callback registered once (a socket handler,  *)
(* a timeout, an utterance callback, the mount effects) therefore keeps    *)
(* reading the values of that render: they are carried in a closure record *)
(* (Capture), while refs (wsRef, answerTimerRef, recognitionRef) and the   *)
(* functional state updates always act on the live record.                 *)
(***************************************************************************)
EXTENDS Integers, Sequences, FiniteSets, TLC

VARIABLES sect, hook, simple

vars == <<sect, hook, simple>>

(***************************************************************************)
(* Bounds of the model.                                                    *)
(***************************************************************************)
MaxEvents == 3
MaxQuestionNumber == 2
MaxCancelledUtterances == 1
MaxPendingReady == 1
TickStep == 30000
MaxSimpleEvents == 5

(***************************************************************************)
(* Program constants.                                                      *)
(***************************************************************************)
ANSWER_TIME_MS == 60000
InitialTotalQuestions == 5

(***************************************************************************)
(* Text.  A string is a sequence of tokens; the token "?" is the question  *)
(* mark, every other token stands for text without one.                    *)
(***************************************************************************)
Includes(text, token) == \E i \in DOMAIN text : text[i] = token

QuestionText == <<"Tell me about yourself", "?">>
EmptyText == <<>>
skipText == <<"I'd prefer to skip this question.">>
errorNotice == <<"Sorry, there was an error. Please try again.">>
waitNotice == <<"Please wait for the connection to be established...">>
AnswerText == <<"I have five years of experience">>
closingText == <<"Thank you for your time.">>

Texts == {QuestionText, EmptyText}

Min(a, b) == IF a < b THEN a ELSE b
Max(a, b) == IF a > b THEN a ELSE b
Ceil(a, b) == (a + b - 1) \div b

(***************************************************************************)
(* Inbound payloads.  A question field is a string, an object with a       *)
(* string field `question`, an object with a string field `text`, or       *)
(* absent.                                                                 *)
(***************************************************************************)
Payloads ==
    [shape : {"string", "objQuestion", "objText"}, str : Texts]
        \cup {[shape |-> "absent", str |-> EmptyText]}

\* part_004:795-800, 812-818, 836-841: the string the handler extracts
\* (<<>> stands for undefined and for the empty string: both are falsy).
ExtractQuestion(p) ==
    IF p.shape = "string" THEN p.str
    ELSE IF p.shape = "objQuestion" THEN p.str
    ELSE EmptyText

normalizeText(value) ==
    IF value.shape = "string" THEN value.str
    ELSE IF value.shape = "absent" THEN EmptyText
    ELSE value.str

AsString(text) == [shape |-> "string", str |-> text]


(***************************************************************************)
(* InterviewSection (part_004:680-1441).                                   *)
(***************************************************************************)

\* The state values a function created by a render of InterviewSection
\* closes over (part_004:681-698).
Capture(s) ==
    [messages |-> s.messages,
     isMuted |-> s.isMuted,
     isAISpeaking |-> s.isAISpeaking,
     isListening |-> s.isListening,
     currentQuestion |-> s.currentQuestion,
     wsConnected |-> s.wsConnected]

\* What the callbacks that outlive a render read of their closure: the
\* socket handlers (handleWebSocketMessage and what it calls), the timeout
\* of addAIMessage (speakMessage, startListening), and the utterance's
\* onend (startListening).
SocketClosure(c) ==
    [messages |-> c.messages, isMuted |-> c.isMuted, isAISpeaking |-> c.isAISpeaking]

SpeechClosure(c) == [isMuted |-> c.isMuted, isAISpeaking |-> c.isAISpeaking]

ListenClosure(c) == [isAISpeaking |-> c.isAISpeaking]

\* The first render: the closure of the mount effects.
FirstRender ==
    [messages |-> <<>>,
     isMuted |-> FALSE,
     isAISpeaking |-> FALSE,
     isListening |-> FALSE,
     currentQuestion |-> 0,
     wsConnected |-> FALSE]

SectInit ==
    [mounted |-> TRUE,
     sockets |-> <<[rs |-> "CONNECTING", cl |-> SocketClosure(FirstRender)]>>,
     wsRef |-> 1,
     wsConnected |-> FALSE,
     wsError |-> FALSE,
     sessionId |-> 0,
     currentQuestion |-> 0,
     totalQuestions |-> InitialTotalQuestions,
     messages |-> <<>>,
     isAISpeaking |-> FALSE,
     isListening |-> FALSE,
     isMuted |-> FALSE,
     interviewStarted |-> FALSE,
     answerTimeLeft |-> -1,
     answerTimerRef |-> 0,
     timers |-> {},
     nextTimerId |-> 1,
     rec |-> "idle",
     utter |-> <<>>,
     cancelledUtterances |-> 0,
     pendingAI |-> <<>>,
     pendingListen |-> <<>>,
     sent |-> <<>>,
     completions |-> 0,
     interviewTranscript |-> <<>>,
     persistedWrites |-> 0,
     persisted |-> <<>>,
     awaiting |-> FALSE,
     threw |-> FALSE,
     events |-> 0,
     lastEvent |-> "mount"]

\* sent holds what the handlers have put on the wire; an event's output is
\* what it appended
SentBy(before, after) == SubSeq(after.sent, Len(before.sent) + 1, Len(after.sent))

RemoveAt(seq, i) ==
    [j \in 1..(Len(seq) - 1) |-> IF j < i THEN seq[j] ELSE seq[j + 1]]

\* wsRef.current && wsRef.current.readyState === WebSocket.OPEN
WsRefOpen(s) == s.wsRef # 0 /\ s.sockets[s.wsRef].rs = "OPEN"

\* wsRef.current.send(JSON.stringify(msg)) behind the readyState guard
SendIfOpen(s, msg) ==
    IF WsRefOpen(s) THEN [s EXCEPT !.sent = Append(@, msg)] ELSE s

\* recognitionRef.current.stop(): a no-op unless the recognizer captures
RecognitionStop(s) ==
    IF s.rec = "active" THEN [s EXCEPT !.rec = "stopping"] ELSE s

\* recognitionRef.current.start() throws InvalidStateError when capture
\* was already started and has not ended yet
RecognitionStartThrows(s) == s.rec # "idle"

\* synthesisRef.current.cancel(): the queue is emptied; the utterance that
\* was removed gets its error event ("canceled" / "interrupted") later
SynthesisCancel(s) ==
    IF s.utter = <<>> THEN s
    ELSE [s EXCEPT !.utter = <<>>,
                   !.cancelledUtterances = Min(@ + 1, MaxCancelledUtterances)]

\* window.clearInterval(answerTimerRef.current)
ClearAnswerInterval(s) ==
    [s EXCEPT !.timers = {t \in @ : t.id # s.answerTimerRef}]

connectWebSocket(s, c) ==
    [s EXCEPT !.sockets = Append(@, [rs |-> "CONNECTING", cl |-> SocketClosure(c)]),
              !.wsRef = Len(s.sockets) + 1]

\* content.split(/\s+/).length of the texts that addAIMessage is given
Words(content) ==
    CASE content = QuestionText -> 4
      [] content = errorNotice -> 8
      [] content = waitNotice -> 8

baseDelay(content) == 350 + Min(1200, Words(content) * 60)

\* jitter = Math.floor(Math.random() * 200): 0 .. maxJitter
maxJitter == 199

\* pendingAI holds the timeouts in the order they were set; each is due
\* baseDelay + jitter after it was set
addAIMessage(s, c, raw) ==
    LET content == normalizeText(raw) IN
    IF content = EmptyText THEN s
    ELSE [s EXCEPT !.pendingAI = Append(@, [content |-> content,
                                            delay |-> baseDelay(content),
                                            cl |-> SpeechClosure(c)])]

\* a faulty variant of addUserMessage: setMessages([message]), the append
\* written against the messages of the first render
addUserMessageStale(s, content) ==
    RecognitionStop(
        [s EXCEPT !.messages = <<[type |-> "user", content |-> content]>>,
                  !.isListening = FALSE])

addUserMessage(s, content) ==
    RecognitionStop(
        [s EXCEPT !.messages = Append(@, [type |-> "user", content |-> content]),
                  !.isListening = FALSE])

speakMessage(s, c, content) ==
    IF c.isMuted THEN s
    ELSE [SynthesisCancel(s) EXCEPT
              !.utter = <<[content |-> content, phase |-> "queued",
                          cl |-> ListenClosure(c)]>>]

startListening(s, c) ==
    LET s1 == IF c.isAISpeaking
              THEN [SynthesisCancel(s) EXCEPT !.isAISpeaking = FALSE]
              ELSE s
        s2 == [s1 EXCEPT !.isListening = TRUE,
                         !.answerTimeLeft = ANSWER_TIME_MS \div 1000]
        s3 == IF s2.answerTimerRef # 0 THEN ClearAnswerInterval(s2) ELSE s2
        s4 == [s3 EXCEPT !.timers = @ \cup {[id |-> s3.nextTimerId, elapsed |-> 0]},
                         !.answerTimerRef = s3.nextTimerId,
                         !.nextTimerId = @ + 1]
    IN  IF RecognitionStartThrows(s4)
        THEN [s4 EXCEPT !.isListening = FALSE]
        ELSE [s4 EXCEPT !.rec = "active"]

stopListening(s) ==
    LET s1 == [RecognitionStop(s) EXCEPT !.isListening = FALSE]
        s2 == IF s1.answerTimerRef # 0
              THEN [ClearAnswerInterval(s1) EXCEPT !.answerTimerRef = 0]
              ELSE s1
    IN  [s2 EXCEPT !.answerTimeLeft = -1]

UserResponse(response, n) ==
    [type |-> "user_response", response |-> response, questionNumber |-> n]

handleSkipQuestion(s, c) ==
    SendIfOpen(addUserMessage(stopListening(s), skipText),
               UserResponse(skipText, c.currentQuestion))

\* onComplete(messages, duration): the parent stores the transcript it is
\* handed and shows the completion phase (part_004:268-272); completions
\* counts the calls
onComplete(s, transcript) ==
    [s EXCEPT !.completions = @ + 1, !.interviewTranscript = transcript]

handleInterviewComplete(s, c) ==
    onComplete(SynthesisCancel(stopListening(s)), c.messages)

toggleMute(s, c) ==
    LET s1 == [s EXCEPT !.isMuted = ~c.isMuted] IN
    IF ~c.isMuted
    THEN [SynthesisCancel(s1) EXCEPT !.isAISpeaking = FALSE]
    ELSE s1

startInterview(s) ==
    SendIfOpen([s EXCEPT !.interviewStarted = TRUE],
               [type |-> "start_interview"])

handleStartListening(s, c) ==
    IF ~c.wsConnected THEN addAIMessage(s, c, AsString(waitNotice))
    ELSE IF c.isListening THEN s
    ELSE LET s1 == [s EXCEPT !.isListening = TRUE, !.isAISpeaking = FALSE] IN
         IF RecognitionStartThrows(s1) THEN s1 ELSE [s1 EXCEPT !.rec = "active"]

handleStopListening(s, c) ==
    IF ~c.isListening THEN s
    ELSE RecognitionStop([s EXCEPT !.isListening = FALSE])

handleSpeechResult(s, c, transcript, isFinal) ==
    IF isFinal
    THEN SendIfOpen(addUserMessage(s, transcript),
                    UserResponse(transcript, c.currentQuestion))
    ELSE s


(***************************************************************************)
(* Inbound messages of InterviewSection.  `question` is the payload of the *)
(* field the handler reads: message.question, or message.nextQuestion of a *)
(* response_analyzed.  0 stands for an absent number or session id.        *)
(***************************************************************************)
QuestionPayloads ==
    {AsString(QuestionText), AsString(EmptyText),
     [shape |-> "objQuestion", str |-> QuestionText],
     [shape |-> "objText", str |-> QuestionText],
     [shape |-> "absent", str |-> EmptyText]}

NoPayload == [shape |-> "absent", str |-> EmptyText]

Msg(type, sid, q, n, total) ==
    [type |-> type, sessionId |-> sid, question |-> q,
     questionNumber |-> n, totalQuestions |-> total]

TotalsOnWire == {0, 2}

SectInbound ==
    {Msg("connection", sid, NoPayload, 0, 0) : sid \in {0, 1}}
    \cup {Msg("interview_started", 0, q, 1, total) :
              q \in QuestionPayloads, total \in TotalsOnWire}
    \cup {Msg(type, 0, q, n, total) :
              type \in {"response_analyzed", "next_question"},
              q \in QuestionPayloads,
              n \in 0..MaxQuestionNumber,
              total \in TotalsOnWire}
    \cup {Msg(type, 0, NoPayload, 0, 0) :
              type \in {"interview_completed", "error", "keepalive"}}

\* case 'response_analyzed' and case 'next_question' have the same body
ApplyNextQuestion(s, c, m) ==
    LET nextQuestion == ExtractQuestion(m.question)
        qNum == m.questionNumber
        qTotal == m.totalQuestions
        s1 == IF nextQuestion # EmptyText /\ qNum # 0
              THEN [addAIMessage(s, c, AsString(nextQuestion)) EXCEPT
                        !.currentQuestion = qNum,
                        !.totalQuestions = IF qTotal # 0 THEN qTotal ELSE @]
              ELSE s
    IN  IF qNum # 0 /\ qTotal # 0 /\ qNum >= qTotal
        THEN handleInterviewComplete(s1, c)
        ELSE s1

\* the default case with the error case's body
unknownTypeAsError(s, c, m) == addAIMessage(s, c, AsString(errorNotice))

\* default: console.log('Unknown message type:', message.type)
unknownType(s, c, m) == s

handleWebSocketMessage(s, c, m) ==
    CASE m.type = "connection" ->
            [s EXCEPT !.sessionId = m.sessionId]
      [] m.type = "interview_started" ->
            LET firstQuestion == ExtractQuestion(m.question)
                qTotal == m.totalQuestions
            IN  IF firstQuestion # EmptyText
                THEN [addAIMessage(s, c, AsString(firstQuestion)) EXCEPT
                          !.currentQuestion = 1,
                          !.totalQuestions = IF qTotal # 0 THEN qTotal ELSE @]
                ELSE s
      [] m.type \in {"response_analyzed", "next_question"} ->
            ApplyNextQuestion(s, c, m)
      [] m.type = "interview_completed" ->
            onComplete([s EXCEPT !.isAISpeaking = FALSE,
                                 !.isListening = FALSE,
                                 !.persistedWrites = @ + 1,
                                 !.persisted = c.messages],
                       c.messages)
      [] m.type = "error" ->
            addAIMessage(s, c, AsString(errorNotice))
      [] OTHER -> unknownType(s, c, m)

\* the callback of addAIMessage's setTimeout (part_004:961-971)
AIMessageTimeout(s, i) ==
    LET item == s.pendingAI[i]
        s1 == [s EXCEPT !.pendingAI = RemoveAt(@, i),
                        !.messages = Append(@, [type |-> "ai",
                                                content |-> item.content])]
    IN  speakMessage(s1, item.cl, item.content)

\* the callback of startListening's setInterval (part_004:1007-1018)
AnswerTimerTick(s, t) ==
    LET elapsed == Min(t.elapsed + TickStep, ANSWER_TIME_MS)
        remaining == Max(0, ANSWER_TIME_MS - elapsed)
        s1 == [s EXCEPT !.timers = (@ \ {t}) \cup {[t EXCEPT !.elapsed = elapsed]},
                        !.answerTimeLeft = Ceil(remaining, 1000)]
    IN  IF remaining <= 0
        THEN [ClearAnswerInterval(RecognitionStop(s1)) EXCEPT
                  !.answerTimerRef = 0,
                  !.isListening = FALSE]
        ELSE s1

utteranceOnStart(s) ==
    [s EXCEPT !.utter[1].phase = "speaking", !.isAISpeaking = TRUE]

utteranceOnEnd(s) ==
    LET u == s.utter[1]
        s1 == [s EXCEPT !.utter = <<>>, !.isAISpeaking = FALSE]
    IN  IF Includes(u.content, "?")
        THEN [s1 EXCEPT !.pendingListen = Append(@, u.cl)]
        ELSE s1

utteranceOnError(s) == [s EXCEPT !.isAISpeaking = FALSE]

wsOnOpen(s) == [s EXCEPT !.wsConnected = TRUE, !.wsError = FALSE]

wsOnClose(s) == [s EXCEPT !.wsConnected = FALSE]

wsOnError(s) == [s EXCEPT !.wsError = TRUE]

\* the cleanup of the mount effect (part_004:712-716)
UnmountCleanup(s) ==
    IF s.wsRef # 0 /\ s.sockets[s.wsRef].rs \in {"CONNECTING", "OPEN"}
    THEN [s EXCEPT !.sockets[s.wsRef].rs = "CLOSING"]
    ELSE s


(***************************************************************************)
(* The events of InterviewSection.  Every event runs one handler to its    *)
(* end (the component reacts to one event at a time).                      *)
(***************************************************************************)
HasUserResponse(outbox) == \E i \in DOMAIN outbox : outbox[i].type = "user_response"

NextQuestionTypes == {"response_analyzed", "next_question"}

\* awaiting records that an answer is outstanding: a user_response was sent
\* and no next-question or completion message has been handled since
Awaiting(before, outbox, name) ==
    IF HasUserResponse(outbox) THEN TRUE
    ELSE IF name \in NextQuestionTypes \cup {"interview_completed"} THEN FALSE
    ELSE before.awaiting

SectEvent(next, name) ==
    /\ sect' = [next EXCEPT !.lastEvent = name,
                            !.sent = SentBy(sect, next),
                            !.awaiting = Awaiting(sect, SentBy(sect, next), name),
                            !.threw = FALSE]
    /\ UNCHANGED <<hook, simple>>

\* An event whose handler ends in an exception that nothing catches: threw
\* records it until the next event, and next is what the handler had done
\* before it raised.
SectRaised(next, name) ==
    /\ sect.events < MaxEvents
    /\ sect' = [next EXCEPT !.lastEvent = name,
                            !.sent = SentBy(sect, next),
                            !.threw = TRUE,
                            !.events = @ + 1]
    /\ UNCHANGED <<hook, simple>>

\* lastEvent names the last user command or server message handled; the
\* callbacks of the sockets, timers, recognizer and synthesizer that run
\* between them are recorded as "callback"
SectStep(next) == SectEvent(next, "callback")

\* Every event but a message of the server and a command of the user
\* follows from an earlier event, or happens once (the Start button, the
\* unmount); the model bounds the number of messages and commands together.
SectCommand(next, name) ==
    /\ sect.events < MaxEvents
    /\ SectEvent([next EXCEPT !.events = @ + 1], name)

SectMessage(next, name) == SectCommand(next, name)

\* ---- the transport ----
SectSocketOpen ==
    \E i \in DOMAIN sect.sockets :
        /\ sect.sockets[i].rs = "CONNECTING"
        /\ SectStep(wsOnOpen([sect EXCEPT !.sockets[i].rs = "OPEN"]))

\* the connection cannot be established: the error event, then the close
\* event
SectSocketFail ==
    \E i \in DOMAIN sect.sockets :
        /\ sect.sockets[i].rs = "CONNECTING"
        /\ SectStep(wsOnClose(wsOnError([sect EXCEPT !.sockets[i].rs = "CLOSED"])))

SectSocketClose ==
    \E i \in DOMAIN sect.sockets :
        /\ sect.sockets[i].rs \in {"OPEN", "CLOSING"}
        /\ SectStep(wsOnClose([sect EXCEPT !.sockets[i].rs = "CLOSED"]))

SectReceive ==
    \E i \in DOMAIN sect.sockets, m \in SectInbound :
        /\ sect.sockets[i].rs = "OPEN"
        /\ SectMessage(handleWebSocketMessage(sect, sect.sockets[i].cl, m), m.type)

\* ws.onmessage is JSON.parse(event.data) followed by
\* handleWebSocketMessage, outside any try: data that is not JSON raises
\* SyntaxError out of the handler before handleWebSocketMessage is called
SectReceiveMalformed ==
    \E i \in DOMAIN sect.sockets :
        /\ sect.sockets[i].rs = "OPEN"
        /\ SectRaised(sect, "malformed")

\* ---- timers ----
\* A timeout comes due before one that was set earlier only if its delay
\* is the shorter one, which the jitter allows when its base delay is less
\* than maxJitter longer.
MayFireBefore(later, earlier) == later.delay < earlier.delay + maxJitter

SectAIMessageTimeout ==
    \E i \in DOMAIN sect.pendingAI :
        /\ \A j \in 1..(i - 1) : MayFireBefore(sect.pendingAI[i], sect.pendingAI[j])
        /\ SectStep(AIMessageTimeout(sect, i))

SectListenTimeout ==
    \E i \in DOMAIN sect.pendingListen :
        SectStep(startListening([sect EXCEPT !.pendingListen = RemoveAt(@, i)],
                                sect.pendingListen[i]))

\* the tick of the interval t that finds the answer time used up
Expires(t) == t.elapsed + TickStep >= ANSWER_TIME_MS

SectAnswerTimerFires(t) == SectStep(AnswerTimerTick(sect, t))

SectAnswerTimerTick == \E t \in sect.timers : SectAnswerTimerFires(t)

\* ---- speech synthesis ----
SectUtteranceStart ==
    /\ sect.utter # <<>>
    /\ sect.utter[1].phase = "queued"
    /\ SectStep(utteranceOnStart(sect))

SectUtteranceEnd ==
    /\ sect.utter # <<>>
    /\ sect.utter[1].phase = "speaking"
    /\ SectStep(utteranceOnEnd(sect))

\* synthesis fails
SectUtteranceError ==
    /\ sect.utter # <<>>
    /\ SectStep(utteranceOnError([sect EXCEPT !.utter = <<>>]))

\* the error event of an utterance that cancel() removed
SectCancelledUtteranceError ==
    /\ sect.cancelledUtterances > 0
    /\ SectStep(utteranceOnError([sect EXCEPT !.cancelledUtterances = @ - 1]))

\* ---- speech recognition (part_004:727-741) ----
\* The recognizer is not continuous: it delivers interim results while it
\* captures, at most one final result (also for the audio captured before
\* stop()), and then ends.  rec is "idle", "active" (capturing), "stopping"
\* (stop() was called) or "ending" (only the end event is still to come).
SectRecognitionResult ==
    \E isFinal \in BOOLEAN :
        /\ sect.rec \in (IF isFinal THEN {"active", "stopping"} ELSE {"active"})
        /\ SectStep(handleSpeechResult(
                        [sect EXCEPT !.rec = IF isFinal THEN "ending" ELSE @],
                        FirstRender, AnswerText, isFinal))

SectRecognitionError ==
    /\ sect.rec = "active"
    /\ SectStep([sect EXCEPT !.rec = "ending", !.isListening = FALSE])

SectRecognitionEnd ==
    /\ sect.rec \in {"active", "stopping", "ending"}
    /\ SectStep([sect EXCEPT !.rec = "idle", !.isListening = FALSE])

\* ---- the user: the controls of the current render ----
SectStartButton ==
    /\ sect.mounted /\ ~sect.interviewStarted /\ sect.wsConnected
    /\ SectEvent(startInterview(sect), "startInterview")

SectRetryButton ==
    /\ sect.mounted /\ sect.wsError
    /\ SectCommand(connectWebSocket(sect, Capture(sect)), "connectWebSocket")

\* Speak / Stop: disabled without a connection on the desktop layout only
SectSpeakButton ==
    /\ sect.mounted /\ sect.interviewStarted
    /\ IF sect.isListening
       THEN SectCommand(handleStopListening(sect, Capture(sect)), "handleStopListening")
       ELSE SectCommand(handleStartListening(sect, Capture(sect)), "handleStartListening")

SectMuteButton ==
    /\ sect.mounted /\ sect.interviewStarted
    /\ SectCommand(toggleMute(sect, Capture(sect)), "toggleMute")

SectSkipButton ==
    /\ sect.mounted /\ sect.interviewStarted /\ sect.wsConnected
    /\ SectCommand(handleSkipQuestion(sect, Capture(sect)), "handleSkipQuestion")

SectEndButton ==
    /\ sect.mounted /\ sect.interviewStarted
    /\ SectCommand(handleInterviewComplete(sect, Capture(sect)), "handleInterviewComplete")

\* ---- the user: the keyboard shortcuts bound by the mount effect
\* (part_004:1075-1088) ----
SectKeyPress ==
    /\ sect.mounted
    /\ \/ SectCommand(toggleMute(sect, FirstRender), "toggleMute")
       \/ SectCommand(handleSkipQuestion(sect, FirstRender), "handleSkipQuestion")
       \/ SectCommand(handleInterviewComplete(sect, FirstRender), "handleInterviewComplete")

\* the parent shows the completion phase once onComplete was called
SectUnmount ==
    /\ sect.mounted
    /\ sect.completions > 0
    /\ SectStep(UnmountCleanup([sect EXCEPT !.mounted = FALSE]))

NextSection ==
    \/ SectSocketOpen
    \/ SectSocketFail
    \/ SectSocketClose
    \/ SectReceive
    \/ SectReceiveMalformed
    \/ SectAIMessageTimeout
    \/ SectListenTimeout
    \/ SectAnswerTimerTick
    \/ SectUtteranceStart
    \/ SectUtteranceEnd
    \/ SectUtteranceError
    \/ SectCancelledUtteranceError
    \/ SectRecognitionResult
    \/ SectRecognitionError
    \/ SectRecognitionEnd
    \/ SectStartButton
    \/ SectRetryButton
    \/ SectSpeakButton
    \/ SectMuteButton
    \/ SectSkipButton
    \/ SectEndButton
    \/ SectKeyPress
    \/ SectUnmount


(***************************************************************************)
(* useInterviewSocket (src/hooks/useInterviewSocket.tsx).                  *)
(*                                                                         *)
(* One mounted instance of the hook.  Its React state (state, isConnected, *)
(* sessionId) is written only together with the module-level variable it   *)
(* mirrors (updateState, updateIsConnected, updateSessionId), and          *)
(* reconnectAttemptsRef / isConnectingRef only together with               *)
(* globalReconnectAttempts / globalIsConnecting, so the model keeps the    *)
(* module-level variables.  connect is memoised on stable dependencies:    *)
(* the socket handlers, and everything they call, are the functions of     *)
(* the first render, in which questionNumber is 0.                         *)
(***************************************************************************)
maxRetries == 5
retryBase == 1000
retryCap == 10000

RECURSIVE Pow2(_)
Pow2(n) == IF n = 0 THEN 1 ELSE 2 * Pow2(n - 1)

HookInit ==
    [globalWs |-> 0,
     wsRef |-> 0,
     globalConnectionState |-> "connecting",
     globalIsConnected |-> FALSE,
     globalSessionId |-> 0,
     globalReconnectAttempts |-> 0,
     globalIsConnecting |-> FALSE,
     reconnectTimeoutRef |-> 0,
     timers |-> {},
     sockets |-> {},
     pendingReady |-> 0,
     currentQuestion |-> EmptyText,
     questionNumber |-> 0,
     totalQuestions |-> 0,
     rec |-> "idle",
     utterances |-> 0,
     audio |-> "idle",
     pendingListen |-> 0,
     sent |-> <<>>,
     events |-> 0,
     lastEvent |-> "mount"]

SocketIds(h) == {w.id : w \in h.sockets}

Socket(h, id) == CHOOSE w \in h.sockets : w.id = id

ReadyState(h, id) == IF id \in SocketIds(h) THEN Socket(h, id).rs ELSE "CLOSED"

SetReadyState(h, id, rs) ==
    [h EXCEPT !.sockets = {IF w.id = id THEN [w EXCEPT !.rs = rs] ELSE w : w \in @}]

\* the name of a new object: the least one that names no live object
FreshId(used) == CHOOSE n \in 1..(Cardinality(used) + 1) : n \notin used

\* ws.close(): a socket that is connecting or open starts closing
SocketCloseCall(h, id) ==
    IF ReadyState(h, id) \in {"CONNECTING", "OPEN"}
    THEN SetReadyState(h, id, "CLOSING")
    ELSE h

updateState(h, newState) == [h EXCEPT !.globalConnectionState = newState]

updateIsConnected(h, connected) == [h EXCEPT !.globalIsConnected = connected]

updateSessionId(h, id) == [h EXCEPT !.globalSessionId = id]

\* clearTimeout(reconnectTimeoutRef.current); reconnectTimeoutRef.current = null
ClearReconnectTimeout(h) ==
    IF h.reconnectTimeoutRef # 0
    THEN [h EXCEPT !.timers = {t \in @ : t.id # h.reconnectTimeoutRef},
                   !.reconnectTimeoutRef = 0]
    ELSE h

connect(h) ==
    IF h.globalWs # 0 /\ ReadyState(h, h.globalWs) = "OPEN"
    THEN [h EXCEPT !.wsRef = h.globalWs]
    ELSE IF h.globalIsConnecting
    THEN h
    ELSE LET h1 == ClearReconnectTimeout([h EXCEPT !.globalIsConnecting = TRUE])
             h2 == IF h1.globalWs # 0
                   THEN [SocketCloseCall(h1, h1.globalWs) EXCEPT !.globalWs = 0]
                   ELSE h1
             h3 == updateState(h2, "connecting")
             ws == FreshId(SocketIds(h3) \cup {h.globalWs, h.wsRef})
         IN  [h3 EXCEPT !.sockets = @ \cup {[id |-> ws, rs |-> "CONNECTING",
                                             established |-> FALSE]},
                        !.wsRef = ws,
                        !.globalWs = ws]

hookOnOpen(h) ==
    [h EXCEPT !.globalIsConnecting = FALSE,
              !.globalReconnectAttempts = 0,
              !.pendingReady = @ + 1]

\* the callback of the 50 ms timeout of ws.onopen
hookReadyTimeout(h) ==
    updateState(updateIsConnected([h EXCEPT !.pendingReady = @ - 1], TRUE), "ready")

\* a faulty variant of retryDelay, the backoff without its cap, which the
\* reconnection policy must tell apart from retryDelay
retryDelayUncapped(attempts) == retryBase * Pow2(attempts)

retryDelay(attempts) == Min(retryBase * Pow2(attempts), retryCap)

hookOnClose(h) ==
    LET h1 == updateIsConnected([h EXCEPT !.globalIsConnecting = FALSE], FALSE) IN
    IF h1.globalConnectionState # "completed"
    THEN IF h1.globalReconnectAttempts < maxRetries
         THEN LET timer == FreshId({t.id : t \in h1.timers} \cup {h1.reconnectTimeoutRef})
              IN  [updateState(h1, "connecting") EXCEPT
                       !.globalReconnectAttempts = @ + 1,
                       !.timers = @ \cup {[id |-> timer,
                                           delay |-> retryDelay(h1.globalReconnectAttempts)]},
                       !.reconnectTimeoutRef = timer]
         ELSE updateState(h1, "error")
    ELSE h1

hookOnError(h) == updateState([h EXCEPT !.globalIsConnecting = FALSE], "error")

retryConnection(h) ==
    connect([h EXCEPT !.globalReconnectAttempts = 0, !.globalIsConnecting = FALSE])

\* recognitionRef.current.start() inside try / catch
hookStartListening(h) ==
    LET h1 == updateState(h, "listening") IN
    IF h1.rec = "idle" THEN [h1 EXCEPT !.rec = "active"] ELSE h1

\* setTimeout(() => startListening(), 800)
ScheduleListening(h) == [h EXCEPT !.pendingListen = @ + 1]

playAIResponse(h, text, audioUrl) ==
    LET h1 == updateState(h, "aiSpeaking") IN
    IF audioUrl
    THEN \* a new src aborts the load or the playback in progress; the
         \* play() promise of an aborted load rejects into the catch block
         IF h1.audio = "loading"
         THEN ScheduleListening(h1)
         ELSE [h1 EXCEPT !.audio = "loading"]
    ELSE [h1 EXCEPT !.utterances = @ + 1]

sendUserResponse(h, response, questionNumber) ==
    IF h.wsRef = 0 \/ response = EmptyText \/ ReadyState(h, h.wsRef) # "OPEN"
    THEN h
    ELSE updateState(
             [updateState(h, "sending") EXCEPT
                  !.sent = Append(@, UserResponse(response, questionNumber))],
             "waitingBackend")

hookStartInterview(h) ==
    IF h.wsRef = 0 \/ ~h.globalIsConnected \/ ReadyState(h, h.wsRef) # "OPEN"
    THEN h
    ELSE [h EXCEPT !.sent = Append(@, [type |-> "start_interview"])]

endInterview(h) ==
    IF h.wsRef = 0 \/ h.globalSessionId = 0 \/ ReadyState(h, h.wsRef) # "OPEN"
    THEN h
    ELSE updateState([h EXCEPT !.sent = Append(@, [type |-> "end_interview"])],
                     "completed")

cleanup(h, force) ==
    LET h1 == ClearReconnectTimeout(h)
        h2 == IF force /\ h1.wsRef # 0
              THEN [SocketCloseCall(h1, h1.wsRef) EXCEPT
                        !.wsRef = 0, !.globalWs = 0, !.globalIsConnecting = FALSE]
              ELSE h1
    IN  [h2 EXCEPT !.rec = IF @ = "active" THEN "stopping" ELSE @,
                   !.utterances = 0]


(***************************************************************************)
(* Inbound messages of the hook.  `question` is message.question, or       *)
(* message.nextQuestion of a response_analyzed, or                         *)
(* message.summary.finalFeedback of an interview_completed.                *)
(***************************************************************************)
HookMsg(type, sid, q, n, total, audio) ==
    [type |-> type, sessionId |-> sid, question |-> q, questionNumber |-> n,
     totalQuestions |-> total, audioUrl |-> audio]

HookInbound ==
    {HookMsg("connection", sid, EmptyText, 0, 0, FALSE) : sid \in {0, 1}}
    \cup {HookMsg("interview_started", 0, QuestionText, 1, 2, audio) :
              audio \in BOOLEAN}
    \cup {HookMsg("response_analyzed", 0, QuestionText, n, 0, audio) :
              n \in 0..MaxQuestionNumber, audio \in BOOLEAN}
    \cup {HookMsg("interview_completed", 0, q, 0, 0, FALSE) :
              q \in {EmptyText, skipText}}
    \cup {HookMsg(type, 0, EmptyText, 0, 0, FALSE) : type \in {"error", "keepalive"}}

hookHandleWebSocketMessage(h, m) ==
    CASE m.type = "connection" ->
            updateSessionId(h, m.sessionId)
      [] m.type = "interview_started" ->
            playAIResponse([h EXCEPT !.currentQuestion = m.question,
                                     !.questionNumber = m.questionNumber,
                                     !.totalQuestions = m.totalQuestions],
                           m.question, m.audioUrl)
      [] m.type = "response_analyzed" ->
            playAIResponse([h EXCEPT !.currentQuestion = m.question,
                                     !.questionNumber = m.questionNumber],
                           m.question, m.audioUrl)
      [] m.type = "interview_completed" ->
            LET h1 == updateState(h, "completed") IN
            IF m.question # EmptyText
            THEN playAIResponse(h1, m.question, m.audioUrl)
            ELSE h1
      [] m.type = "error" ->
            updateState(h, "error")
      [] OTHER -> h

(***************************************************************************)
(* The events of the hook.                                                 *)
(***************************************************************************)
\* a closed socket has no further event: the model forgets it
Forget(h, id) == [h EXCEPT !.sockets = {w \in @ : w.id # id}]

HookEvent(next, name) ==
    /\ hook' = [next EXCEPT !.lastEvent = name, !.sent = SentBy(hook, next)]
    /\ UNCHANGED <<sect, simple>>

HookCommand(next, name) ==
    /\ hook.events < MaxEvents
    /\ HookEvent([next EXCEPT !.events = @ + 1], name)

\* ---- the transport ----
\* (the model lets a socket open only when fewer than MaxPendingReady of the
\* 50 ms callbacks of earlier opens are still pending)
HookSocketOpen ==
    \E w \in hook.sockets :
        /\ w.rs = "CONNECTING"
        /\ hook.pendingReady < MaxPendingReady
        /\ HookEvent(hookOnOpen(
                         [hook EXCEPT !.sockets =
                              (@ \ {w}) \cup {[w EXCEPT !.rs = "OPEN",
                                                        !.established = TRUE]}]),
                     "ws.onopen")

\* the connection cannot be established, or close() was called before it
\* was: the error event, then the close event
HookSocketFail ==
    \E w \in hook.sockets :
        /\ ~w.established
        /\ w.rs \in {"CONNECTING", "CLOSING"}
        /\ HookEvent(hookOnClose(hookOnError(Forget(hook, w.id))), "ws.onerror")

HookSocketClose ==
    \E w \in hook.sockets :
        /\ w.established
        /\ w.rs \in {"OPEN", "CLOSING"}
        /\ HookEvent(hookOnClose(Forget(hook, w.id)), "ws.onclose")

HookReceive ==
    \E w \in hook.sockets, m \in HookInbound :
        /\ w.rs = "OPEN"
        /\ HookCommand(hookHandleWebSocketMessage(hook, m), m.type)

\* event.data that JSON.parse rejects (useInterviewSocket.tsx:188-193)
HookReceiveMalformed ==
    \E w \in hook.sockets :
        /\ w.rs = "OPEN"
        /\ HookCommand(hook, "malformed")

\* ---- timers ----
HookReadyTimeout ==
    /\ hook.pendingReady > 0
    /\ HookEvent(hookReadyTimeout(hook), "ready.timeout")

HookReconnectTimeout ==
    \E t \in hook.timers :
        HookEvent(connect([hook EXCEPT !.timers = @ \ {t}]), "reconnect.timeout")

HookListenTimeout ==
    /\ hook.pendingListen > 0
    /\ HookEvent(hookStartListening([hook EXCEPT !.pendingListen = @ - 1]),
                 "startListening")

\* ---- speech synthesis and audio playback ----
HookUtteranceEnd ==
    /\ hook.utterances > 0
    /\ HookEvent(ScheduleListening([hook EXCEPT !.utterances = @ - 1]),
                 "utterance.onend")

\* synthesis fails: the utterance has no error handler
HookUtteranceError ==
    /\ hook.utterances > 0
    /\ HookEvent([hook EXCEPT !.utterances = @ - 1], "utterance.onerror")

\* play() resolves: playback has started, onended is installed
HookAudioPlaying ==
    /\ hook.audio = "loading"
    /\ HookEvent([hook EXCEPT !.audio = "playing"], "audio.playing")

\* play() rejects: the catch block
HookAudioRejected ==
    /\ hook.audio = "loading"
    /\ HookEvent(ScheduleListening([hook EXCEPT !.audio = "idle"]), "audio.rejected")

HookAudioEnded ==
    /\ hook.audio = "playing"
    /\ HookEvent(ScheduleListening([hook EXCEPT !.audio = "idle"]), "audio.onended")

\* ---- speech recognition ----
HookRecognitionResult ==
    \E isFinal \in BOOLEAN :
        /\ hook.rec \in (IF isFinal THEN {"active", "stopping"} ELSE {"active"})
        /\ IF isFinal
           THEN HookEvent(sendUserResponse([hook EXCEPT !.rec = "ending"],
                                           AnswerText, HookInit.questionNumber),
                          "recognition.final")
           ELSE HookEvent(hook, "recognition.partial")

HookRecognitionError ==
    /\ hook.rec = "active"
    /\ HookEvent(updateState([hook EXCEPT !.rec = "ending"], "error"),
                 "recognition.onerror")

HookRecognitionEnd ==
    /\ hook.rec \in {"active", "stopping", "ending"}
    /\ HookEvent([hook EXCEPT !.rec = "idle"], "recognition.onend")

\* ---- the consumer of the hook ----
HookConnect == HookCommand(connect(hook), "connect")

HookRetryConnection == HookCommand(retryConnection(hook), "retryConnection")

HookStartInterview == HookCommand(hookStartInterview(hook), "startInterview")

HookEndInterview == HookCommand(endInterview(hook), "endInterview")

HookCleanup ==
    \E force \in BOOLEAN : HookCommand(cleanup(hook, force), "cleanup")

NextSocket ==
    \/ HookSocketOpen
    \/ HookSocketFail
    \/ HookSocketClose
    \/ HookReceive
    \/ HookReceiveMalformed
    \/ HookReadyTimeout
    \/ HookReconnectTimeout
    \/ HookListenTimeout
    \/ HookUtteranceEnd
    \/ HookUtteranceError
    \/ HookAudioPlaying
    \/ HookAudioRejected
    \/ HookAudioEnded
    \/ HookRecognitionResult
    \/ HookRecognitionError
    \/ HookRecognitionEnd
    \/ HookConnect
    \/ HookRetryConnection
    \/ HookStartInterview
    \/ HookEndInterview
    \/ HookCleanup


(***************************************************************************)
(* useSimpleInterview (src/hooks/useSimpleInterview.tsx), as its consumers *)
(* use it: with a navigate function, connect() in a mount effect and       *)
(* disconnect() in its cleanup.                                            *)
(*                                                                         *)
(* Every callback of the hook is memoised on stable dependencies and reads *)
(* only refs and state setters, except startInterview (isConnected) and    *)
(* endInterview (sessionId), which the consumer calls from its current     *)
(* render.  The handlers of a socket stay attached to it after wsRef was   *)
(* pointed elsewhere.  threw records that the last event raised an         *)
(* exception out of its handler.                                           *)
(***************************************************************************)
SimpleInit ==
    [mounted |-> TRUE,
     sockets |-> {},
     wsRef |-> 0,
     state |-> "connecting",
     sessionId |-> 0,
     currentQuestion |-> EmptyText,
     questionNumber |-> 0,
     questionNumberRef |-> 0,
     isConnected |-> FALSE,
     rec |-> "idle",
     utterances |-> <<>>,
     pendingListen |-> 0,
     pendingNavigate |-> 0,
     sent |-> <<>>,
     threw |-> FALSE,
     events |-> 0,
     lastEvent |-> "mount"]

\* WebSocket.send: throws InvalidStateError on a connecting socket, queues
\* the data on an open one, and discards it on a closing or closed one
SocketSend(p, msg) ==
    LET rs == ReadyState(p, p.wsRef) IN
    IF rs = "CONNECTING" THEN [p EXCEPT !.threw = TRUE]
    ELSE IF rs = "OPEN" THEN [p EXCEPT !.sent = Append(@, msg)]
    ELSE p

simpleConnect(p) ==
    LET ws == FreshId(SocketIds(p) \cup {p.wsRef}) IN
    [p EXCEPT !.state = "connecting",
              !.sockets = @ \cup {[id |-> ws, rs |-> "CONNECTING", established |-> FALSE]},
              !.wsRef = ws]

simpleOnOpen(p) == [p EXCEPT !.isConnected = TRUE, !.state = "ready"]

simpleOnClose(p) == [p EXCEPT !.isConnected = FALSE, !.state = "error"]

simpleOnError(p) == [p EXCEPT !.state = "error"]

\* speechSynthesis.speak(utterance): the utterance joins the queue
speakQuestion(p, text) == [p EXCEPT !.utterances = Append(@, text)]

SimpleMsg(type, sid, q, n) ==
    [type |-> type, sessionId |-> sid, question |-> q, questionNumber |-> n]

\* `question` is message.question, or message.summary.feedback of an
\* interview_complete
SimpleInbound ==
    {SimpleMsg("connected", sid, EmptyText, 0) : sid \in {0, 1}}
    \cup {SimpleMsg(type, 0, QuestionText, n) :
              type \in {"question", "next_question"}, n \in 1..MaxQuestionNumber}
    \cup {SimpleMsg("interview_complete", 0, q, 0) : q \in {EmptyText, closingText}}
    \cup {SimpleMsg(type, 0, EmptyText, 0) :
              type \in {"interview_ended", "error", "keepalive"}}

handleMessage(p, m) ==
    CASE m.type = "connected" ->
            [p EXCEPT !.sessionId = m.sessionId]
      [] m.type \in {"question", "next_question"} ->
            speakQuestion([p EXCEPT !.currentQuestion = m.question,
                                    !.questionNumber = m.questionNumber,
                                    !.questionNumberRef = m.questionNumber,
                                    !.state = "speaking"],
                          m.question)
      [] m.type = "interview_complete" ->
            LET p1 == [p EXCEPT !.state = "completed"] IN
            IF m.question # EmptyText THEN speakQuestion(p1, m.question) ELSE p1
      [] m.type = "interview_ended" ->
            [p EXCEPT !.pendingNavigate = @ + 1]
      [] m.type = "error" ->
            [p EXCEPT !.state = "error"]
      [] OTHER -> p

simpleStartInterview(p) ==
    IF p.wsRef = 0 \/ ~p.isConnected THEN p
    ELSE SocketSend([p EXCEPT !.state = "interviewing"], [type |-> "start_interview"])

sendResponse(p, response) ==
    IF p.wsRef = 0 \/ response = EmptyText THEN p
    ELSE SocketSend(p, UserResponse(response, p.questionNumberRef))

\* recognitionRef.current.start() inside try / catch
simpleStartListening(p) ==
    IF p.rec = "idle"
    THEN [p EXCEPT !.state = "listening", !.rec = "active"]
    ELSE [p EXCEPT !.state = "interviewing"]

simpleEndInterview(p) ==
    IF p.wsRef = 0 \/ p.sessionId = 0 THEN p
    ELSE SocketSend(p, [type |-> "end_interview"])

disconnect(p) ==
    LET p1 == [p EXCEPT !.rec = IF @ = "active" THEN "stopping" ELSE @]
        p2 == IF p1.wsRef # 0
              THEN [SocketCloseCall(p1, p1.wsRef) EXCEPT !.wsRef = 0]
              ELSE p1
    IN  [p2 EXCEPT !.utterances = <<>>, !.isConnected = FALSE, !.state = "connecting"]

\* utterance.onend
simpleUtteranceOnEnd(p) ==
    [p EXCEPT !.utterances = Tail(@), !.pendingListen = @ + 1]

\* ---- the events of useSimpleInterview ----
\* the hook at the start of an event: no exception raised yet
Now == [simple EXCEPT !.threw = FALSE]

SimpleEvent(next, name) ==
    /\ simple' = [next EXCEPT !.lastEvent = name, !.sent = SentBy(simple, next)]
    /\ UNCHANGED <<sect, hook>>

SimpleStep(next) == SimpleEvent(next, "callback")

SimpleCommand(next, name) ==
    /\ simple.events < MaxSimpleEvents
    /\ SimpleEvent([next EXCEPT !.events = @ + 1], name)

SimpleSocketOpen ==
    \E w \in simple.sockets :
        /\ w.rs = "CONNECTING"
        /\ SimpleStep(simpleOnOpen(
               [Now EXCEPT !.sockets = (@ \ {w}) \cup {[w EXCEPT !.rs = "OPEN",
                                                                 !.established = TRUE]}]))

SimpleSocketFail ==
    \E w \in simple.sockets :
        /\ ~w.established
        /\ w.rs \in {"CONNECTING", "CLOSING"}
        /\ SimpleStep(simpleOnClose(simpleOnError(Forget(Now, w.id))))

SimpleSocketClose ==
    \E w \in simple.sockets :
        /\ w.established
        /\ w.rs \in {"OPEN", "CLOSING"}
        /\ SimpleStep(simpleOnClose(Forget(Now, w.id)))

SimpleReceive ==
    \E w \in simple.sockets, m \in SimpleInbound :
        /\ w.rs = "OPEN"
        /\ SimpleCommand(handleMessage(Now, m), m.type)

\* event.data that JSON.parse rejects (useSimpleInterview.tsx:69-74)
SimpleReceiveMalformed ==
    \E w \in simple.sockets :
        /\ w.rs = "OPEN"
        /\ SimpleCommand(Now, "malformed")

SimpleUtteranceEnd ==
    /\ simple.utterances # <<>>
    /\ SimpleStep(simpleUtteranceOnEnd(Now))

\* synthesis fails: the utterance has no error handler
SimpleUtteranceError ==
    /\ simple.utterances # <<>>
    /\ SimpleStep([Now EXCEPT !.utterances = Tail(@)])

SimpleListenTimeout ==
    /\ simple.pendingListen > 0
    /\ SimpleStep(simpleStartListening([Now EXCEPT !.pendingListen = @ - 1]))

\* the navigation unmounts the consumer, whose effect cleanup disconnects
SimpleNavigateTimeout ==
    /\ simple.pendingNavigate > 0
    /\ SimpleStep(IF simple.mounted
                  THEN disconnect([Now EXCEPT !.pendingNavigate = @ - 1,
                                              !.mounted = FALSE])
                  ELSE [Now EXCEPT !.pendingNavigate = @ - 1])

\* interimResults is false: the recognizer delivers one final result
SimpleRecognitionResult ==
    /\ simple.rec \in {"active", "stopping"}
    /\ SimpleEvent(sendResponse([Now EXCEPT !.rec = "ending"], AnswerText),
                   "recognition.onresult")

SimpleRecognitionError ==
    /\ simple.rec = "active"
    /\ SimpleStep([Now EXCEPT !.rec = "ending", !.state = "interviewing"])

SimpleRecognitionEnd ==
    /\ simple.rec \in {"active", "stopping", "ending"}
    /\ SimpleStep([Now EXCEPT !.rec = "idle", !.state = "interviewing"])

SimpleConnect == simple.mounted /\ SimpleCommand(simpleConnect(Now), "connect")

SimpleStartInterview ==
    simple.mounted /\ SimpleCommand(simpleStartInterview(Now), "startInterview")

SimpleEndInterview ==
    simple.mounted /\ SimpleCommand(simpleEndInterview(Now), "endInterview")

SimpleDisconnect == simple.mounted /\ SimpleCommand(disconnect(Now), "disconnect")

SimpleStartListening ==
    simple.mounted /\ SimpleCommand(simpleStartListening(Now), "startListening")

NextSimple ==
    \/ SimpleSocketOpen
    \/ SimpleSocketFail
    \/ SimpleSocketClose
    \/ SimpleReceive
    \/ SimpleReceiveMalformed
    \/ SimpleUtteranceEnd
    \/ SimpleUtteranceError
    \/ SimpleListenTimeout
    \/ SimpleNavigateTimeout
    \/ SimpleRecognitionResult
    \/ SimpleRecognitionError
    \/ SimpleRecognitionEnd
    \/ SimpleConnect
    \/ SimpleStartInterview
    \/ SimpleEndInterview
    \/ SimpleDisconnect
    \/ SimpleStartListening

Init == sect = SectInit /\ hook = HookInit /\ simple = SimpleInit

SpecSection == Init /\ [][NextSection]_vars

SpecSocket == Init /\ [][NextSocket]_vars

SpecSimple == Init /\ [][NextSimple]_vars

\* The callbacks that the browser owes the hook: a pending timeout fires, an
\* utterance handed to the synthesizer ends or fails, a play() promise
\* settles, playback ends, and a recognizer that was started ends.  The
\* server and the user owe nothing.
SpecSocketFair ==
    /\ SpecSocket
    /\ WF_vars(HookReadyTimeout)
    /\ WF_vars(HookReconnectTimeout)
    /\ WF_vars(HookListenTimeout)
    /\ WF_vars(HookUtteranceEnd \/ HookUtteranceError)
    /\ WF_vars(HookAudioPlaying \/ HookAudioRejected)
    /\ WF_vars(HookAudioEnded)
    /\ WF_vars(HookRecognitionEnd)


(***************************************************************************)
(* Properties.                                                             *)
(***************************************************************************)
OpenSockets(sockets) == {i \in DOMAIN sockets : sockets[i].rs = "OPEN"}

\* C1: no interleaving of connection attempts produces two connections that
\* are open at the same time, in the component and in the hook.
SingleOpenConnection ==
    /\ Cardinality(OpenSockets(sect.sockets)) <= 1
    /\ Cardinality({w \in hook.sockets : w.rs = "OPEN"}) <= 1

\* C2: handling a response_analyzed / next_question message either advances
\* the question number by exactly one, or leaves the question number and the
\* transcript (the entries appended and the AI entries about to be appended)
\* unchanged.
MonotonicQuestionNumbers ==
    [][sect'.lastEvent \in NextQuestionTypes =>
          \/ sect'.currentQuestion = sect.currentQuestion + 1
          \/ /\ sect'.currentQuestion = sect.currentQuestion
             /\ sect'.messages = sect.messages
             /\ sect'.pendingAI = sect.pendingAI]_vars

\* C3: no event sends a user_response while an answer is outstanding, that
\* is, while the answer sent before has not been followed by the handling of
\* a next-question or completion message.
OneOutstandingAnswer ==
    [][HasUserResponse(sect'.sent) => ~sect.awaiting]_vars

\* C4: a message received after the interview was completed (by an earlier
\* interview_completed, or by a question number that reached the total) does
\* not call the completion callback nor write the persisted record again.
IdempotentCompletion ==
    [][(/\ sect'.lastEvent \in NextQuestionTypes \cup {"interview_completed"}
        /\ sect.completions >= 1)
          => /\ sect'.completions = sect.completions
             /\ sect'.persistedWrites = sect.persistedWrites]_vars

\* the close handler of a socket of the hook ran in this step; "ws.onerror"
\* is a failed socket, whose error event is followed by its close event
HookCloseStep == hook'.lastEvent \in {"ws.onclose", "ws.onerror"}

\* an unexpected close: the interview is not completed when the socket closes
UnexpectedCloseStep ==
    /\ HookCloseStep
    /\ (hook'.lastEvent = "ws.onerror" \/ hook.globalConnectionState # "completed")

\* the delays of the 1st .. 5th reconnect, in ms
ReconnectDelays == <<1000, 2000, 4000, 8000, 10000>>

ReconnectionPolicyStep ==
    IF hook.globalReconnectAttempts < Len(ReconnectDelays)
    THEN /\ hook'.globalConnectionState = "connecting"
         /\ hook'.globalReconnectAttempts = hook.globalReconnectAttempts + 1
         /\ \E t \in hook'.timers \ hook.timers :
               /\ hook'.timers = hook.timers \cup {t}
               /\ t.delay = ReconnectDelays[hook'.globalReconnectAttempts]
    ELSE /\ hook'.globalConnectionState = "error"
         /\ hook'.timers = hook.timers
         /\ hook'.globalReconnectAttempts = hook.globalReconnectAttempts

\* C5 (as stated): every unexpected close with fewer than 5 retries made
\* sets the state to connecting and schedules exactly one reconnect, the
\* k-th after 1s, 2s, 4s, 8s, 10s, and with 5 retries made sets the state to
\* error and schedules nothing; and the state is error only when the 5
\* retries are exhausted.
ReconnectionPolicyErrorOnlyExhausted ==
    [][/\ UnexpectedCloseStep => ReconnectionPolicyStep
       /\ hook'.globalConnectionState = "error"
             => hook'.globalReconnectAttempts = Len(ReconnectDelays)]_vars

\* C5 (amended): every unexpected close with fewer than 5 retries made sets
\* the state to connecting and schedules exactly one reconnect, the k-th
\* after 1s, 2s, 4s, 8s, 10s; a close sets the state to error only when the
\* 5 retries are exhausted, and then schedules nothing.
ReconnectionPolicy ==
    [][/\ UnexpectedCloseStep => ReconnectionPolicyStep
       /\ (HookCloseStep /\ hook'.globalConnectionState = "error")
             => /\ hook.globalReconnectAttempts = Len(ReconnectDelays)
                /\ hook'.timers = hook.timers]_vars

\* the socket closed with the five retries made: the state is error and no
\* reconnect is pending
RetriesExhausted ==
    /\ hook.lastEvent \in {"ws.onclose", "ws.onerror"}
    /\ hook.globalConnectionState = "error"
    /\ hook.globalReconnectAttempts = Len(ReconnectDelays)
    /\ hook.timers = {}

\* C6: retryConnection() called in the error state resets the attempt
\* counter, starts a new connection attempt and moves the state to
\* connecting.
ManualRetryLeavesError ==
    [][(hook'.lastEvent = "retryConnection" /\ hook.globalConnectionState = "error")
          => /\ hook'.globalReconnectAttempts = 0
             /\ hook'.globalConnectionState = "connecting"
             /\ \E w \in hook'.sockets : w.rs = "CONNECTING" /\ w.id = hook'.globalWs]_vars

\* C7: endInterview() called in a state that is neither completed nor error
\* moves the state to completed, leaves no speech in progress, and sends
\* end_interview when the socket is open.
EndInterviewUnconditional ==
    [][(hook'.lastEvent = "endInterview"
        /\ hook.globalConnectionState \notin {"completed", "error"})
          => /\ hook'.globalConnectionState = "completed"
             /\ hook'.utterances = 0
             /\ hook'.audio = "idle"
             /\ (ReadyState(hook, hook.wsRef) = "OPEN"
                   => \E i \in DOMAIN hook'.sent : hook'.sent[i].type = "end_interview")]_vars

\* C8: when the answer timer expires while the recognizer is still capturing
\* (no final result arrived) and the socket is open, a user_response for the
\* current question is sent and no timer remains.
TimeoutSendsPlaceholder ==
    [][(/\ \E t \in sect.timers : Expires(t) /\ SectAnswerTimerFires(t)
        /\ sect.isListening
        /\ sect.rec = "active"
        /\ WsRefOpen(sect))
          => /\ \E i \in DOMAIN sect'.sent :
                   /\ sect'.sent[i].type = "user_response"
                   /\ sect'.sent[i].questionNumber = sect.currentQuestion
             /\ sect'.timers = {}]_vars

\* C9: at most one answer timer is live at any instant, and a step that
\* enters listening leaves no timer that was live before it.
AtMostOneLiveTimer ==
    [][/\ Cardinality(sect'.timers) <= 1
       /\ (~sect.isListening /\ sect'.isListening)
             => sect.timers \cap sect'.timers = {}]_vars

\* C10: once the completion callback has been called, no answer timer is
\* running, no AI speech is playing or pending, and the recognizer is not
\* capturing.
CancellationOnTermination ==
    sect.completions >= 1
        => /\ sect.timers = {}
           /\ sect.utter = <<>>
           /\ sect.pendingAI = <<>>
           /\ sect.rec # "active"

IsPrefix(a, b) == Len(a) <= Len(b) /\ SubSeq(b, 1, Len(a)) = a

\* C11: every step leaves the transcript as it was or appends to it: its
\* length never decreases and no entry is changed, reordered or removed.
TranscriptAppendOnly ==
    [][IsPrefix(sect.messages, sect'.messages)]_vars

\* the transcript holds an AI entry followed by a user entry
TranscriptGrown ==
    \E i, j \in DOMAIN sect.messages :
        /\ i < j
        /\ sect.messages[i].type = "ai"
        /\ sect.messages[j].type = "user"

\* C12: user_response (sent on a recognition result), start_interview and
\* end_interview issued while the socket of useSimpleInterview is not open
\* send nothing, raise no exception and leave the session state unchanged.
SendNotOpenIsNoOp ==
    [][(/\ simple'.lastEvent \in {"recognition.onresult", "startInterview", "endInterview"}
        /\ ReadyState(simple, simple.wsRef) # "OPEN")
          => /\ simple'.sent = <<>>
             /\ ~simple'.threw
             /\ simple'.state = simple.state]_vars

\* C13: a malformed or unparseable inbound message never raises out of the
\* message handler and leaves the session as it was (connection, question,
\* transcript, capture, speech and timers).
MalformedMessageDiscarded ==
    [][SectReceiveMalformed =>
          /\ ~sect'.threw
          /\ [sect' EXCEPT !.events = 0, !.lastEvent = "", !.sent = <<>>, !.threw = FALSE]
               = [sect EXCEPT !.events = 0, !.lastEvent = "", !.sent = <<>>, !.threw = FALSE]]_vars

\* C14: an inbound message whose type is none of the known types is ignored:
\* handling it leaves the connection, the session, the question and its
\* number, the transcript, capture, speech and the timers as they were.
UnknownTypeIgnored ==
    [][sect'.lastEvent = "keepalive" =>
          [sect' EXCEPT !.events = 0, !.lastEvent = "", !.sent = <<>>, !.threw = FALSE]
            = [sect EXCEPT !.events = 0, !.lastEvent = "", !.sent = <<>>, !.threw = FALSE]]_vars

\* an unknown message has been handled while an answer was being captured
\* under a live timer
UnknownTypeWhileListening ==
    /\ sect.lastEvent = "keepalive"
    /\ sect.isListening
    /\ sect.timers # {}
    /\ sect.currentQuestion > 0
    /\ sect.messages # <<>>

\* C15: the skip-question operation stops capture and its timer, appends
\* exactly one user entry with the skip text, and sends exactly one
\* user_response carrying that text and the current question number
\* (stated for a skip during a question, over an open connection).
SkipSendsOneResponse ==
    [][(/\ sect'.lastEvent = "handleSkipQuestion"
        /\ WsRefOpen(sect)
        /\ sect.currentQuestion > 0) =>
          /\ ~sect'.isListening
          /\ sect'.rec # "listening"
          /\ sect'.timers = {}
          /\ sect'.messages = Append(sect.messages, [type |-> "user", content |-> skipText])
          /\ sect'.sent = <<UserResponse(skipText, sect.currentQuestion)>>]_vars

\* C16: the user_response sent for a recognized answer carries the number
\* of the question being answered, the question number most recently
\* accepted from the server when the answer is sent.
ResponseCarriesCurrentNumber ==
    [][SectRecognitionResult =>
          \A i \in DOMAIN sect'.sent :
              sect'.sent[i].type = "user_response"
                  => sect'.sent[i].questionNumber = sect.currentQuestion]_vars

\* C17: when a final recognition result arrives the answer timer is
\* cancelled in the same transition: once the answer has been appended and
\* sent, no timer is running.
FinalResultCancelsTimer ==
    [][(SectRecognitionResult /\ Len(sect'.messages) > Len(sect.messages))
          => sect'.timers = {}]_vars

\* C18: on completion the transcript handed to the completion callback and
\* the transcript written to the persisted record hold every entry
\* appended before completion, in order (stated for the completion that the
\* server's interview_completed message brings about).
CompletionCarriesTranscript ==
    [][sect'.lastEvent = "interview_completed" =>
          /\ sect'.completions = sect.completions + 1
          /\ sect'.interviewTranscript = sect.messages
          /\ sect'.persistedWrites = sect.persistedWrites + 1
          /\ sect'.persisted = sect.messages]_vars

\* C19: the state is ready only when a sessionId has been received: in
\* every reachable state, state = ready implies a non-empty sessionId.
ReadyImpliesSessionId ==
    hook.globalConnectionState = "ready" => hook.globalSessionId # 0

\* C20: listening is entered after speech only when the spoken content is
\* a question (contains a question mark): the end of an utterance that is
\* not a question schedules no start of capture.
ListeningOnlyAfterQuestion ==
    [][(SimpleUtteranceEnd /\ ~Includes(simple.utterances[1], "?"))
          => simple'.pendingListen = simple.pendingListen]_vars

\* C21: speak() never hangs the state machine: the state eventually
\* leaves aiSpeaking also when synthesis fails (stated for the failure of
\* the utterance that speak() handed to the synthesizer).
SpeakNeverHangs ==
    (hook.globalConnectionState = "aiSpeaking" /\ hook.lastEvent = "utterance.onerror")
        ~> (hook.globalConnectionState # "aiSpeaking")

\* C22: at most one utterance plays at a time: speak() cancels any playing
\* or queued utterance before starting a new one, so the synthesizer never
\* holds more than one utterance.
AtMostOneUtterance == Len(simple.utterances) <= 1

\* C23: barge-in: a step that starts capture while an utterance is queued
\* or playing cancels that utterance, on every path that starts capture.
CaptureCancelsSpeech ==
    [][(sect.rec # "active" /\ sect'.rec = "active" /\ sect.utter # <<>>)
          => sect'.utter = <<>>]_vars

\* C24: reconnection is attempted only on an unexpected close: the close
\* event of a socket that the forced cleanup closed (no socket is held any
\* more, every remaining socket is closing) neither sets the state back to
\* connecting nor schedules a reconnect.
NoReconnectAfterForcedCleanup ==
    [][(/\ HookSocketClose \/ HookSocketFail
        /\ hook.wsRef = 0 /\ hook.globalWs = 0
        /\ \A w \in hook.sockets : w.rs = "CLOSING")
          => /\ hook'.timers = hook.timers
             /\ hook'.globalConnectionState = hook.globalConnectionState]_vars

\* C25: an inbound question delivered as a string, or as an object with a
\* string field `question` or `text`, is kept as plain text: handling the
\* message queues exactly one AI entry whose content is that string.
QuestionKeptAsPlainText ==
    [][\A i \in DOMAIN sect.sockets, m \in SectInbound :
          (/\ sect.sockets[i].rs = "OPEN"
           /\ m.type \in {"interview_started"} \cup NextQuestionTypes
           /\ m.questionNumber # 0
           /\ m.question.shape \in {"string", "objQuestion", "objText"}
           /\ m.question.str # EmptyText
           /\ SectMessage(handleWebSocketMessage(sect, sect.sockets[i].cl, m), m.type))
             => /\ Len(sect'.pendingAI) = Len(sect.pendingAI) + 1
                /\ sect'.pendingAI[Len(sect'.pendingAI)].content = m.question.str]_vars

\* C26: completed is absorbing: once the state is completed, no callback
\* of the socket, the synthesizer, the recognizer or a timer and no inbound
\* message moves the state to another value or starts capture, for as long
\* as the hook is mounted.
CompletedIsAbsorbing ==
    [][(/\ simple.state = "completed"
        /\ simple'.mounted
        /\ simple'.lastEvent \notin {"connect", "startInterview", "endInterview",
                                     "disconnect", "startListening"})
          => /\ simple'.state = "completed"
             /\ simple'.rec = "active" => simple.rec = "active"]_vars

\* C27: isConnected is true and state is ready only while the current
\* socket is open: whatever the order of the open event, the deferred
\* ready callback and the close or error events, isConnected or ready
\* implies that the socket the hook holds is open.
ConnectedOnlyWhileOpen ==
    (hook.globalIsConnected \/ hook.globalConnectionState = "ready")
        => (hook.wsRef # 0 /\ ReadyState(hook, hook.wsRef) = "OPEN")

\* C28: a socket that connect() closed and replaced has no effect on the
\* session afterward: its late close event changes neither isConnected nor
\* the state, does not clear the in-progress flag of the newer attempt,
\* does not increment the reconnect counter and schedules no reconnect.
ReplacedSocketIsInert ==
    [][(/\ HookSocketClose \/ HookSocketFail
        /\ hook.wsRef # 0
        /\ \E w \in hook.sockets : /\ w.id # hook.wsRef
                                    /\ w.rs = "CLOSING"
                                    /\ w.id \notin SocketIds(hook'))
          => /\ hook'.globalIsConnected = hook.globalIsConnected
             /\ hook'.globalConnectionState = hook.globalConnectionState
             /\ hook'.globalIsConnecting = hook.globalIsConnecting
             /\ hook'.globalReconnectAttempts = hook.globalReconnectAttempts
             /\ hook'.timers = hook.timers]_vars

\* C29: half-duplex turn-taking: in every reachable state isAISpeaking and
\* isListening are not both true.
HalfDuplex == ~(sect.isAISpeaking /\ sect.isListening)

\* C30: AI transcript entries are appended in the order their inbound
\* messages were received: the deferred callback that appends an entry is
\* that of the AI message received earliest among those still pending.
AIMessagesAppendedInOrder ==
    [][SectAIMessageTimeout => sect'.pendingAI = Tail(sect.pendingAI)]_vars

====
